---- MODULE Spec2Model ----
(***************************************************************************)
(* solver_logreg (src/CAA/logreg.py): gradient descent on the l2           *)
(* regularised logistic loss with (constrained) Anderson extrapolation.    *)
(*                                                                         *)
(* Numbers are exact rationals <<n, d>> (d > 0, lowest terms).  A norm is  *)
(* represented by its square, so every comparison of norms in the source   *)
(* is the same comparison of squares here.  The logistic gradient is a     *)
(* pure function of the weight vector; the model keeps it as the table     *)
(* `oracle', extended with a value drawn from GradSet each time a new      *)
(* weight vector is produced.                                              *)
(***************************************************************************)
EXTENDS Integers, Sequences, FiniteSets, TLC

\* ------------------------------------------------------------- bounds
MaxIter == 6        \* the largest max_iter
MaxK == 2           \* the largest K
MaxClock == 1       \* the clock stops advancing after MaxClock ticks
FWMaxIter == 3      \* inner iterations of the Frank-Wolfe solve

\* ---------------------------------------------------------- rationals
Abs(x) == IF x < 0 THEN -x ELSE x

RECURSIVE GCD(_, _)
GCD(a, b) == IF b = 0 THEN a ELSE GCD(b, a % b)

Rat(n, d) ==
    LET s == IF d < 0 THEN -1 ELSE 1
        g == GCD(Abs(n), Abs(d))
    IN  <<(s * n) \div g, (s * d) \div g>>

Zero == <<0, 1>>
One == <<1, 1>>
None == <<0, 0>>    \* Python's None: no rational has denominator 0

RAdd(p, q) == Rat(p[1] * q[2] + q[1] * p[2], p[2] * q[2])
RNeg(p) == <<-p[1], p[2]>>
RSub(p, q) == RAdd(p, RNeg(q))
RMul(p, q) == Rat(p[1] * q[1], p[2] * q[2])
RDiv(p, q) == Rat(p[1] * q[2], p[2] * q[1])
RLt(p, q) == p[1] * q[2] < q[1] * p[2]
RLe(p, q) == p[1] * q[2] <= q[1] * p[2]
RMax(p, q) == IF RLt(p, q) THEN q ELSE p
RAbs(p) == <<Abs(p[1]), p[2]>>

\* <<Op(1), ..., Op(n)>>
RECURSIVE MkSeq(_, _)
MkSeq(Op(_), n) == IF n = 0 THEN <<>> ELSE Append(MkSeq(Op, n - 1), Op(n))

RECURSIVE RSumTo(_, _)
RSumTo(s, n) == IF n = 0 THEN Zero ELSE RAdd(RSumTo(s, n - 1), s[n])

RSum(s) == RSumTo(s, Len(s))

\* ------------------------------------------------------------ vectors
VAdd(u, v) == MkSeq(LAMBDA i : RAdd(u[i], v[i]), Len(u))
VSub(u, v) == MkSeq(LAMBDA i : RSub(u[i], v[i]), Len(u))
VScale(a, u) == MkSeq(LAMBDA i : RMul(a, u[i]), Len(u))
Dot(u, v) == RSum(MkSeq(LAMBDA i : RMul(u[i], v[i]), Len(u)))
NormSq(u) == Dot(u, u)
VZero(n) == MkSeq(LAMBDA i : Zero, n)

\* ----------------------------------------------------------- matrices
\* A K x K matrix is a sequence of K rows, each a sequence of K rationals.
Minor(M, j) ==
    MkSeq(LAMBDA r :
            MkSeq(LAMBDA q : M[r + 1][IF q < j THEN q ELSE q + 1], Len(M) - 1),
          Len(M) - 1)

RECURSIVE Det(_)
Det(M) ==
    IF Len(M) = 1 THEN M[1][1]
    ELSE RSum(MkSeq(LAMBDA j :
                      RMul(IF j % 2 = 1 THEN M[1][j] ELSE RNeg(M[1][j]),
                           Det(Minor(M, j))),
                    Len(M)))

ReplaceCol(M, j, b) ==
    MkSeq(LAMBDA r : MkSeq(LAMBDA q : IF q = j THEN b[r] ELSE M[r][q], Len(M)),
          Len(M))

MatVec(M, v) == MkSeq(LAMBDA r : Dot(M[r], v), Len(M))

\* ------------------------------------------------------ configuration
Two == <<2, 1>>
Half == <<1, 2>>

\* Values the gradient oracle can return (never the zero vector: the run
\* is not at an exact stationary point).  Three norm levels, and both
\* collinear and independent pairs of directions.
GradSet == { <<One, Zero>>, <<One, One>>, <<Two, Zero>> }

n_features == Len(CHOOSE g \in GradSet : TRUE)

\* solver_logreg's arguments, and L as computed from X and rho.
\* Plain descent with every sampling cadence and tolerance; accelerated
\* runs long enough for two mixing events, without and with a radius.
PlainConfigs ==
    [ max_iter : {MaxIter - 2}, max_time : {0}, tolSq : {Zero, Two},
      f_grad : {1, 2, 3}, K : {MaxK}, use_acc : {FALSE}, C0 : {None},
      adaptive_C : {FALSE}, reg_amount : {None}, L : {One, Two} ]

SolveConfigs ==
    [ max_iter : {MaxIter}, max_time : {0}, tolSq : {Two},
      f_grad : {2}, K : {MaxK}, use_acc : {TRUE}, C0 : {None},
      adaptive_C : {FALSE}, reg_amount : {None}, L : {One} ]

RegConfigs ==
    [ max_iter : {MaxIter - 3}, max_time : {0}, tolSq : {Zero},
      f_grad : {1}, K : {MaxK}, use_acc : {TRUE}, C0 : {None},
      adaptive_C : {FALSE}, reg_amount : {One}, L : {Two} ]

FWConfigs ==
    [ max_iter : {MaxIter}, max_time : {0}, tolSq : {Two},
      f_grad : {2}, K : {MaxK}, use_acc : {TRUE}, C0 : {One},
      adaptive_C : {FALSE, TRUE}, reg_amount : {None}, L : {One} ]

Configs == PlainConfigs \cup SolveConfigs \cup RegConfigs \cup FWConfigs

VARIABLES
    cfg,        \* the arguments of the call
    pc,         \* position in the loop: head, grad, step, mix, done
    it,         \* the loop index
    w, Xw,      \* working weight vector and its cached prediction X @ w
    grad_w,     \* gradient at the start of the iteration
    last_K_w,   \* the K+1 slots of the iterate buffer
    c,          \* mixing coefficients
    E, T,       \* gradient-norm and elapsed-time histories
    border,     \* boundary flag of the last constrained solve
    C_prev,     \* radius of the last constrained solve that adopted one
    clock,      \* time.time() - start_time, in ticks
    oracle,     \* the gradient at every weight vector produced so far
    exit,       \* why the loop was left: none, time, tol, max_iter
    hist,       \* history: the iterates produced by the gradient steps
    ev          \* history: what the last mixing event did

vars == <<cfg, pc, it, w, Xw, grad_w, last_K_w, c, E, T, border, C_prev,
          clock, oracle, exit, hist, ev>>

\* X @ v, kept as the vector it is the prediction of.
Pred(v) == <<"X@", v>>

\* -X.T @ (y / (1 + exp(y * Xw))) + rho * w, with Xw = X @ v.
Gradient(xw, v) == oracle[xw[2]]

\* The values the oracle may take at x: its value if x was seen before,
\* any value otherwise.
GradAt(x) == IF x \in DOMAIN oracle THEN {oracle[x]} ELSE GradSet

InitCoef(K) == MkSeq(LAMBDA k : IF k = 1 THEN <<-1, 1>> ELSE Zero, K)

NoEvent == [n |-> 0]

Init ==
    /\ cfg \in Configs
    /\ pc = "head"
    /\ it = 0
    /\ w = VZero(n_features)
    /\ Xw = Pred(VZero(n_features))
    /\ grad_w = VZero(n_features)
    /\ last_K_w = [k \in 0..cfg.K |-> VZero(n_features)]
    /\ c = InitCoef(cfg.K)
    /\ E = <<>>
    /\ T = <<>>
    /\ border = TRUE
    /\ C_prev = cfg.C0
    /\ clock = 0
    /\ \E g \in GradSet : oracle = (VZero(n_features) :> g)
    /\ exit = "none"
    /\ hist = <<>>
    /\ ev = NoEvent

\* ------------------------------------------------------------ the loop
TimeExceeded(clk, max_time) == clk > max_time

\* a sampling test that is off by one iteration
SampledShifted(i, f_grad) == (i + 1) % f_grad = 0

Sampled(i, f_grad) == i % f_grad = 0

\* a convergence test that is not strict
ConvergedOrEqual(ng, tolSq) == RLe(ng, tolSq)

Converged(ng, tolSq) == RLt(ng, tolSq)

GDStep(v, g, L) == VSub(v, VScale(RDiv(One, L), g))

\* a buffer of K slots instead of K + 1
SlotModK(i, K) == i % K

Slot(i, K) == i % (K + 1)

MixingEvent(i, K) == i % (K + 1) = K

\* time passes
Tick ==
    /\ pc \in {"head", "grad"}
    /\ clock < MaxClock
    /\ clock' = clock + 1
    /\ UNCHANGED <<cfg, pc, it, w, Xw, grad_w, last_K_w, c, E, T, border,
                   C_prev, oracle, exit, hist, ev>>

\* range(max_iter) is exhausted
LoopEnd ==
    /\ pc = "head"
    /\ it = cfg.max_iter
    /\ pc' = "done"
    /\ exit' = "max_iter"
    /\ UNCHANGED <<cfg, it, w, Xw, grad_w, last_K_w, c, E, T, border,
                   C_prev, clock, oracle, hist, ev>>

\* if time.time() - start_time > max_time: break
TimeCheck ==
    /\ pc = "head"
    /\ it < cfg.max_iter
    /\ IF TimeExceeded(clock, cfg.max_time)
       THEN pc' = "done" /\ exit' = "time"
       ELSE pc' = "grad" /\ exit' = exit
    /\ UNCHANGED <<cfg, it, w, Xw, grad_w, last_K_w, c, E, T, border,
                   C_prev, clock, oracle, hist, ev>>

\* the gradient, the sampled metric and the early exit
GradEval ==
    /\ pc = "grad"
    /\ LET g == Gradient(Xw, w)
           norm_grad == NormSq(g)
       IN  /\ grad_w' = g
           /\ IF Sampled(it, cfg.f_grad)
              THEN /\ E' = Append(E, norm_grad)
                   /\ T' = Append(T, clock)
                   /\ IF Converged(norm_grad, cfg.tolSq)
                      THEN pc' = "done" /\ exit' = "tol"
                      ELSE pc' = "step" /\ exit' = exit
              ELSE /\ E' = E /\ T' = T
                   /\ pc' = "step" /\ exit' = exit
    /\ UNCHANGED <<cfg, it, w, Xw, last_K_w, c, border, C_prev, clock,
                   oracle, hist, ev>>

\* the gradient step and the push into the buffer
Step ==
    /\ pc = "step"
    /\ LET wn == GDStep(w, grad_w, cfg.L)
       IN  /\ w' = wn
           /\ Xw' = Pred(wn)
           /\ \E g \in GradAt(wn) : oracle' = (wn :> g) @@ oracle
           /\ hist' = Append(hist, wn)
           /\ IF cfg.use_acc
              THEN last_K_w' = [last_K_w EXCEPT ![Slot(it, cfg.K)] = wn]
              ELSE last_K_w' = last_K_w
           /\ IF cfg.use_acc /\ MixingEvent(it, cfg.K)
              THEN pc' = "mix" /\ it' = it
              ELSE pc' = "head" /\ it' = it + 1
    /\ UNCHANGED <<cfg, grad_w, c, E, T, border, C_prev, clock, exit, ev>>

\* --------------------------------------------------- the mixing event
\* R[:, k] = last_K_w[:, k + 1] - last_K_w[:, k]; column k is entry k + 1.
Residuals(buf, K) == MkSeq(LAMBDA k : VSub(buf[k], buf[k - 1]), K)

\* R.T @ R
Gram(R) ==
    MkSeq(LAMBDA a : MkSeq(LAMBDA b : Dot(R[a], R[b]), Len(R)), Len(R))

Trace(G) == RSum(MkSeq(LAMBDA a : G[a][a], Len(G)))

RECURSIVE RMaxOf(_)
RMaxOf(s) == IF Len(s) = 1 THEN s[1] ELSE RMax(s[1], RMaxOf(Tail(s)))

MaxDiag(G) == RMaxOf(MkSeq(LAMBDA a : G[a][a], Len(G)))

\* norm(RTR, ord=2), the largest eigenvalue of a positive semidefinite
\* matrix: it lies between the largest diagonal entry and the trace, and
\* is drawn from the two ends of that interval.
SpectralNorms(G) == {MaxDiag(G), Trace(G)}

\* RTR += reg_amount * norm(RTR, ord=2) * np.eye(K)
Regularize(G, reg, sn) ==
    IF reg = None THEN G
    ELSE MkSeq(LAMBDA a :
                 MkSeq(LAMBDA b : IF a = b THEN RAdd(G[a][b], RMul(reg, sn))
                                  ELSE G[a][b], Len(G)),
               Len(G))

\* np.linalg.solve raises LinAlgError on a singular matrix
Singular(G) == Det(G) = Zero

Ones(K) == MkSeq(LAMBDA k : One, K)

\* np.linalg.solve(RTR, b), by Cramer's rule
LinSolve(G, b) ==
    MkSeq(LAMBDA j : RDiv(Det(ReplaceCol(G, j, b)), Det(G)), Len(G))

\* the solution used without dividing by its sum
Unnormalized(z) == z

\* c = z / z.sum()
Normalize(z) == MkSeq(LAMBDA k : RDiv(z[k], RSum(z)), Len(z))

\* the unit weight on the first entry instead of the last
FirstCoef(K) == MkSeq(LAMBDA k : IF k = 1 THEN One ELSE Zero, K)

\* c = np.zeros(K); c[-1] = 1
TrivialCoef(K) == MkSeq(LAMBDA k : IF k = K THEN One ELSE Zero, K)

\* the combination of slots 1..K, last_K_w[:, 1:] @ c
MixedIterateNewest(buf, cc, K) ==
    MkSeq(LAMBDA i : RSum(MkSeq(LAMBDA k : RMul(buf[k][i], cc[k]), K)),
          n_features)

\* w_acc = last_K_w[:, :-1] @ c
MixedIterate(buf, cc, K) ==
    MkSeq(LAMBDA i : RSum(MkSeq(LAMBDA k : RMul(buf[k - 1][i], cc[k]), K)),
          n_features)

\* if norm_grad_acc < norm_grad
Accept(norm_grad_acc, norm_grad) == RLt(norm_grad_acc, norm_grad)

\* (norm_grad / L) ** (-0.49): below 1, 1 or above 1 as norm_grad is above,
\* at or below L; kept to one value in each of the three cases.
Pow049(ngSq, L) ==
    IF RLt(RMul(L, L), ngSq) THEN Half
    ELSE IF ngSq = RMul(L, L) THEN One ELSE Two

\* the candidate without C = max(C, C0)
CandidateNoFloor(C0, adaptive_C, ngSq, L, i, K) ==
    IF adaptive_C
    THEN RMul(C0, RDiv(RMul(Pow049(ngSq, L), <<i, 1>>), <<K, 1>>))
    ELSE C0

\* C = C0; if adaptive_C: C *= (norm_grad/L)**(-0.49)*it/K; C = max(C, C0)
Candidate(C0, adaptive_C, ngSq, L, i, K) ==
    IF adaptive_C
    THEN RMax(RMul(C0, RDiv(RMul(Pow049(ngSq, L), <<i, 1>>), <<K, 1>>)), C0)
    ELSE C0

\* the test on border inverted
RadiusPassedInverted(brd, Cp, cand) == IF brd THEN Cp ELSE cand

\* if not border: C = C_prev        (the radius handed to FW)
RadiusPassed(brd, Cp, cand) == IF ~brd THEN Cp ELSE cand

\* else: C_prev = C
NextCPrev(brd, Cp, cand) == IF ~brd THEN Cp ELSE cand

\* 1e-12 * norm(R[:, 0]) is positive unless the first residual vanishes
TolPositive(R) == NormSq(R[1]) # Zero

\* --- CAA.utils.FWsolver.FW: Frank-Wolfe over {sum(c) = 1, |c - e_K|_1 <= C}
L1Dist(u, v) == RSum(MkSeq(LAMBDA i : RAbs(RSub(u[i], v[i])), Len(u)))

FWArgMin(g) ==
    CHOOSE i \in 1..Len(g) :
        /\ \A j \in 1..Len(g) : RLe(g[i], g[j])
        /\ \A j \in 1..(i - 1) : RLt(g[i], g[j])

FWArgMax(g) ==
    CHOOSE i \in 1..Len(g) :
        /\ \A j \in 1..Len(g) : RLe(g[j], g[i])
        /\ \A j \in 1..(i - 1) : RLt(g[j], g[i])

\* the extreme point e_K + (C/2)(e_i - e_j)
FWVertex(K, C, i, j) ==
    MkSeq(LAMBDA k :
            RAdd(IF k = K THEN One ELSE Zero,
                 IF i = j THEN Zero
                 ELSE IF k = i THEN RMul(Half, C)
                 ELSE IF k = j THEN RNeg(RMul(Half, C)) ELSE Zero),
          K)

RECURSIVE FWRun(_, _, _, _, _)
FWRun(G, cc, tolPos, C, n) ==
    LET g == VScale(Two, MatVec(G, cc))
        s == FWVertex(Len(cc), C, FWArgMin(g), FWArgMax(g))
        d == VSub(cc, s)
        gap == Dot(g, d)
        den == RMul(Two, Dot(d, MatVec(G, d)))
        gamma == IF den = Zero THEN Zero
                 ELSE RMax(Zero, IF RLt(One, RDiv(gap, den)) THEN One
                                 ELSE RDiv(gap, den))
    IN  IF n = 0 \/ (tolPos /\ RLe(gap, Zero))
        THEN [c |-> cc, gap |-> gap]
        ELSE FWRun(G, VAdd(cc, VScale(gamma, VSub(s, cc))), tolPos, C, n - 1)

FW(G, c0, tolPos, C, max_iter) ==
    LET r == FWRun(G, c0, tolPos, C, max_iter)
    IN  [c |-> r.c, gap |-> r.gap,
         border |-> L1Dist(r.c, TrivialCoef(Len(c0))) = C]

\* FW raises LinAlgError only on a degenerate Gram matrix
FWMayFail(G) == Singular(G)

\* --- the safeguard, shared by every way the coefficient solve can end
Safeguard(cNew, info) ==
    LET norm_grad == NormSq(grad_w)
        w_acc == MixedIterate(last_K_w, cNew, cfg.K)
    IN  \E ga \in GradAt(w_acc) :
            LET norm_grad_acc == NormSq(ga)
                take == Accept(norm_grad_acc, norm_grad)
            IN  /\ oracle' = (w_acc :> ga) @@ oracle
                /\ c' = cNew
                /\ w' = IF take THEN w_acc ELSE w
                /\ Xw' = IF take THEN Pred(w_acc) ELSE Xw
                /\ ev' = [n |-> ev.n + 1, it |-> it, path |-> info.path,
                          solved |-> info.solved, radius |-> info.radius,
                          candidate |-> info.candidate,
                          border_before |-> border, C_prev_before |-> C_prev,
                          border_after |-> info.border,
                          C_prev_after |-> info.C_prev,
                          pushes |-> Len(hist),
                          w_after |-> IF take THEN w_acc ELSE w,
                          Xw_after |-> IF take THEN Pred(w_acc) ELSE Xw,
                          c_before |-> c, c_after |-> cNew, buf |-> last_K_w,
                          plain |-> w, w_acc |-> w_acc, accepted |-> take,
                          norm_grad |-> norm_grad,
                          norm_grad_acc |-> norm_grad_acc]
                /\ pc' = "head"
                /\ it' = it + 1

\* the Gram matrices the event can work on (one per value of the norm)
RTRs ==
    LET G0 == Gram(Residuals(last_K_w, cfg.K))
    IN  IF cfg.reg_amount = None THEN {G0}
        ELSE {Regularize(G0, cfg.reg_amount, sn) : sn \in SpectralNorms(G0)}

\* C0 is None, np.linalg.solve returns
MixSolve ==
    /\ pc = "mix"
    /\ cfg.C0 = None
    /\ \E RTR \in RTRs :
          /\ ~Singular(RTR)
          /\ Safeguard(Normalize(LinSolve(RTR, Ones(cfg.K))),
                       [path |-> "solve", solved |-> TRUE, radius |-> None,
                        candidate |-> None, border |-> border,
                        C_prev |-> C_prev])
    /\ UNCHANGED <<cfg, grad_w, last_K_w, E, T, border, C_prev, clock, exit,
                   hist>>

\* C0 is None, np.linalg.solve raises LinAlgError
MixSolveError ==
    /\ pc = "mix"
    /\ cfg.C0 = None
    /\ \E RTR \in RTRs :
          /\ Singular(RTR)
          /\ Safeguard(c, [path |-> "solve", solved |-> FALSE,
                           radius |-> None, candidate |-> None,
                           border |-> border, C_prev |-> C_prev])
    /\ UNCHANGED <<cfg, grad_w, last_K_w, E, T, border, C_prev, clock, exit,
                   hist>>

\* C0 is given, FW returns
MixFW ==
    /\ pc = "mix"
    /\ cfg.C0 # None
    /\ \E RTR \in RTRs :
          LET R == Residuals(last_K_w, cfg.K)
              cand == Candidate(cfg.C0, cfg.adaptive_C, NormSq(grad_w),
                                cfg.L, it, cfg.K)
              C == RadiusPassed(border, C_prev, cand)
              r == FW(RTR, TrivialCoef(cfg.K), TolPositive(R), C, FWMaxIter)
          IN  /\ C_prev' = NextCPrev(border, C_prev, cand)
              /\ border' = r.border
              /\ Safeguard(r.c, [path |-> "fw", solved |-> TRUE,
                                 radius |-> C, candidate |-> cand,
                                 border |-> r.border,
                                 C_prev |-> NextCPrev(border, C_prev, cand)])
    /\ UNCHANGED <<cfg, grad_w, last_K_w, E, T, clock, exit, hist>>

\* C0 is given, FW raises LinAlgError
MixFWError ==
    /\ pc = "mix"
    /\ cfg.C0 # None
    /\ \E RTR \in RTRs :
          LET cand == Candidate(cfg.C0, cfg.adaptive_C, NormSq(grad_w),
                                cfg.L, it, cfg.K)
              C == RadiusPassed(border, C_prev, cand)
          IN  /\ FWMayFail(RTR)
              /\ C_prev' = NextCPrev(border, C_prev, cand)
              /\ border' = border
              /\ Safeguard(TrivialCoef(cfg.K),
                           [path |-> "fw", solved |-> FALSE, radius |-> C,
                            candidate |-> cand, border |-> border,
                            C_prev |-> NextCPrev(border, C_prev, cand)])
    /\ UNCHANGED <<cfg, grad_w, last_K_w, E, T, clock, exit, hist>>

Next ==
    \/ Tick
    \/ LoopEnd
    \/ TimeCheck
    \/ GradEval
    \/ Step
    \/ MixSolve
    \/ MixSolveError
    \/ MixFW
    \/ MixFWError

Spec == Init /\ [][Next]_vars

\* The interpreter always executes the next statement, and every statement
\* of the loop moves pc; time passing does not.  A run that has not
\* terminated therefore keeps moving pc.
Advance ==
    /\ pc # "done"
    /\ pc' \in {"head", "grad", "step", "mix", "done"} \ {pc}

FairSpec == Spec /\ WF_pc(Advance)

\* ---------------------------------------------------------- the claims
Mixed == ev.n > 0

\* C1: at every mixing event the mixed iterate replaces w and Xw iff its
\* gradient norm is strictly below that of the plain iterate of that step,
\* so the iterate the loop continues with is never worse than the plain one.
C1_SafeguardMonotone ==
    Mixed =>
        /\ ev.accepted <=>
               RLt(NormSq(oracle[ev.w_acc]), NormSq(oracle[ev.plain]))
        /\ RLe(NormSq(oracle[ev.w_after]), NormSq(oracle[ev.plain]))

\* C2: whenever the coefficient solve of a mixing event returned, the
\* coefficients used for the mixed iterate are K numbers that sum to 1.
C2_CoefficientsSumToOne ==
    (Mixed /\ ev.solved) =>
        /\ Len(ev.c_after) = cfg.K
        /\ RSum(ev.c_after) = One
        /\ c = ev.c_after

C2_Witness ==
    /\ Mixed /\ ev.solved /\ ev.path = "solve"
    /\ \E k \in 1..cfg.K : ev.c_after[k] \notin {Zero, One}
    /\ ev.c_after # ev.c_before

\* C3: E and T always have the same length, one entry for each executed
\* iteration whose index is a multiple of f_grad; they only grow by
\* appending; at termination they hold at most max_iter / f_grad + 1 entries.
C3_Executed ==
    {i \in 0..cfg.max_iter :
        \/ i < it
        \/ i = it /\ (pc \in {"step", "mix"} \/ exit = "tol")}

C3_Lengths ==
    /\ Len(E) = Len(T)
    /\ Len(E) = Cardinality({i \in C3_Executed : i % cfg.f_grad = 0})
    /\ pc = "done" => Len(E) * cfg.f_grad <= cfg.max_iter + cfg.f_grad

C3_AppendOnly ==
    /\ E' = E \/ (Len(E') = Len(E) + 1 /\ SubSeq(E', 1, Len(E)) = E)
    /\ T' = T \/ (Len(T') = Len(T) + 1 /\ SubSeq(T', 1, Len(T)) = T)
    /\ Len(E') > Len(E) <=> Len(T') > Len(T)

C3_Histories == [](C3_Lengths) /\ [][C3_AppendOnly]_vars

C3_Witness ==
    pc = "done" /\ exit = "max_iter" /\ cfg.f_grad = 3 /\ Len(E) = 2 /\ Len(T) = 2

\* C4: every run terminates within max_iter iterations, and only because
\* the time budget was exceeded (seen at the loop head), the sampled
\* gradient norm was below tol (before any step, push or mixing of that
\* iteration), or max_iter iterations were executed.
C4_Safety ==
    /\ it <= cfg.max_iter
    /\ Len(hist) <= cfg.max_iter
    /\ pc = "done" <=> exit # "none"
    /\ exit \in {"none", "time", "tol", "max_iter"}
    /\ exit = "max_iter" => it = cfg.max_iter /\ Len(hist) = cfg.max_iter
    /\ exit = "time" => clock > cfg.max_time /\ Len(hist) = it
    /\ exit = "tol" =>
          /\ it % cfg.f_grad = 0
          /\ Len(E) > 0
          /\ RLt(E[Len(E)], cfg.tolSq)
          /\ Len(hist) = it
          /\ Mixed => ev.it < it

C5_FailedSolveSkipsMixing ==
    (Mixed /\ ~ev.solved) =>
        /\ ~ev.accepted
        /\ ev.w_after = ev.plain
        /\ ev.Xw_after = Pred(ev.plain)

\* C6 (as claimed): when the coefficient solve raises, c after the event is
\* the c held before it, on the unconstrained and on the constrained path.
C6_FailureKeepsCoefficients ==
    (Mixed /\ ~ev.solved) => ev.c_after = ev.c_before

\* C6 (amended): when np.linalg.solve raises, c is the c held before the
\* event; when FW raises, c is the one-hot vector set just before the call.
C6_FailureCoefficients ==
    (Mixed /\ ~ev.solved) =>
        /\ c = ev.c_after
        /\ ev.path = "solve" => ev.c_after = ev.c_before
        /\ ev.path = "fw" =>
              \A k \in 1..cfg.K :
                  ev.c_after[k] = IF k = cfg.K THEN One ELSE Zero

C6_Witness ==
    /\ Mixed /\ ~ev.solved /\ ev.path = "fw" /\ ev.n = 2
    /\ ev.c_before # ev.c_after

\* C7 (as claimed): after N >= K+1 pushes the slots read in index order are
\* the K+1 most recent iterates, oldest first, whatever N mod (K+1) is.
C7_IndexOrderIsTemporal ==
    (cfg.use_acc /\ Len(hist) >= cfg.K + 1) =>
        \A k \in 0..cfg.K : last_K_w[k] = hist[Len(hist) - cfg.K + k]

\* C7 (amended): push number j goes to slot (j-1) mod (K+1), so after
\* N >= K+1 pushes the buffer holds the K+1 most recent iterates; no mixing
\* event comes before K+1 pushes; and at every mixing event N is a multiple
\* of K+1 and the slots read in index order are oldest to newest.
C7_BufferAtMixing ==
    cfg.use_acc =>
        /\ \A j \in 1..Len(hist) :
              j > Len(hist) - (cfg.K + 1) =>
                  last_K_w[(j - 1) % (cfg.K + 1)] = hist[j]
        /\ pc = "mix" =>
              /\ Len(hist) >= cfg.K + 1
              /\ Len(hist) % (cfg.K + 1) = 0
              /\ \A k \in 0..cfg.K :
                    last_K_w[k] = hist[Len(hist) - cfg.K + k]
        /\ Mixed =>
              /\ ev.pushes >= cfg.K + 1
              /\ \A k \in 0..cfg.K : ev.buf[k] = hist[ev.pushes - cfg.K + k]

C7_Witness == pc = "mix" /\ ev.n = 1 /\ ev.accepted /\ Len(hist) = 2 * (cfg.K + 1)

\* the combination of K consecutive slots, the first being slot lo
C8_Combine(buf, cc, lo) ==
    MkSeq(LAMBDA i :
            RSum(MkSeq(LAMBDA k : RMul(cc[k], buf[lo + k - 1][i]), Len(cc))),
          n_features)

\* C8 (as claimed): the mixed iterate combines the K newest buffered
\* iterates, so the one-hot vector with weight on its last entry selects
\* the newest one, the plain iterate of the step.
C8_MixesNewest ==
    Mixed =>
        /\ ev.w_acc = C8_Combine(ev.buf, ev.c_after, 1)
        /\ C8_Combine(ev.buf, MkSeq(LAMBDA k : IF k = cfg.K THEN One ELSE Zero,
                                     cfg.K), 1) = ev.plain

\* C8 (amended): the mixed iterate combines the K oldest buffered iterates
\* (slots 0..K-1, the newest slot left out), so the one-hot vector selects
\* slot K-1, the iterate the step started from; the plain iterate of the
\* step is slot K.
C8_MixesOldest ==
    Mixed =>
        /\ ev.w_acc = C8_Combine(ev.buf, ev.c_after, 0)
        /\ ev.buf[cfg.K] = ev.plain
        /\ ev.buf[cfg.K - 1] = hist[ev.pushes - 1]
        /\ NormSq(oracle[ev.buf[cfg.K - 1]]) = ev.norm_grad

C8_Witness ==
    /\ Mixed /\ ev.solved /\ ev.path = "fw"
    /\ ev.w_acc # C8_Combine(ev.buf, ev.c_after, 1)
    /\ ev.w_acc # ev.buf[cfg.K - 1]

\* C9: with C0 given, a mixing event that finds border false hands C_prev
\* to FW and leaves it unchanged; one that finds border true (the first
\* does) hands over the fresh candidate and stores it in C_prev.  Only
\* mixing events change C_prev and border.
C9_Rule ==
    /\ (Mixed /\ ev.path = "fw") =>
          /\ ev.n = 1 => ev.border_before
          /\ ~ev.border_before =>
                ev.radius = ev.C_prev_before /\ ev.C_prev_after = ev.C_prev_before
          /\ ev.border_before =>
                ev.radius = ev.candidate /\ ev.C_prev_after = ev.candidate
    /\ ~Mixed => border /\ C_prev = cfg.C0

C9_OnlyAtMixing ==
    (C_prev' # C_prev \/ border' # border) => (pc = "mix" /\ cfg.C0 # None)

C9_RadiusContinuation == [](C9_Rule) /\ [][C9_OnlyAtMixing]_vars

C9_Witness ==
    /\ Mixed /\ ev.path = "fw" /\ ev.n = 2
    /\ ~ev.border_before
    /\ ev.candidate # ev.C_prev_before
    /\ ev.radius = ev.C_prev_before

\* C10: with C0 given, the radius handed to FW and the stored C_prev are
\* never below C0, and both are C0 at every event when adaptive_C is false.
C10_RadiusFloor ==
    cfg.C0 # None =>
        /\ RLe(cfg.C0, C_prev)
        /\ Mixed =>
              /\ RLe(cfg.C0, ev.radius)
              /\ RLe(cfg.C0, ev.C_prev_after)
              /\ ~cfg.adaptive_C =>
                    ev.radius = cfg.C0 /\ ev.C_prev_after = cfg.C0

C10_Witness ==
    /\ Mixed /\ cfg.adaptive_C /\ ev.n = 2
    /\ RLt(cfg.C0, ev.radius)
    /\ ev.C_prev_after = ev.radius

====
